---- MODULE Spec2Model ----
(***************************************************************************)
(* A model of the two interface modules of linux-networkinterfaces:        *)
(*   networkinterfaces.py       (error handler with a strict/permissive    *)
(*                               switch, up()/down())                      *)
(*   linuxnetworkinterfaces.py  (dedicated exceptions, verified setters)   *)
(*                                                                         *)
(* One object (self) is bound to one kernel device (kernel). Every call of *)
(* a public method is one action. The kernel is the external collaborator: *)
(* each mutation command exits with a code the kernel chooses, and on exit *)
(* 0 leaves the attribute at a value the kernel chooses (the requested     *)
(* one, the old one, or another one).                                      *)
(*                                                                         *)
(* Python values are written as strings: attribute values as themselves,   *)
(* None as "None", the booleans a method returns as "True" / "False", a    *)
(* channel number by its decimal digits (so str() and int() of a channel   *)
(* leave it as written), the                                               *)
(* arguments of set_device_flag by their literal ("'on'", "True", "0").    *)
(***************************************************************************)
EXTENDS Naturals, Sequences, FiniteSets, TLC

\* Number of public method calls made on the object in one behaviour.
MaxCalls == 2

\* Longest query response parsed, in tokens, and the number of times one
\* response is parsed.
MaxTokens == 3
MaxParses == 2

None == "None"
NoExc == ""

NI == "networkinterfaces"
LNI == "linuxnetworkinterfaces"
Variants == {NI, LNI}
Classes == {"Interface", "WiredInterface", "WirelessInterface"}

Names == {"eth0", "eth1"}
AliasValues == {"lan", "wan"}
HwAddrs == {"02:00:00:00:00:01", "02:00:00:00:00:02"}
OperStates == {"UP", "DOWN", "UNKNOWN"}
StateArgs == {"up", "down"}
Modes == {"managed", "monitor"}
Channels == {"1", "6"}
ExitCodes == {0, 1}
FlagArgs == {"noarp", "MULTICAST", "allmulti", "promisc", "mtu"}
Settings == {"'on'", "'off'", "True", "False", "None", "''", "0"}

VARIABLES
    variant,   \* which module the object's class comes from
    cls,       \* the object's class
    self,      \* the object's attributes
    kernel,    \* the device as the operating system holds it
    call,      \* the last call of a public method and how it ended
    calls,     \* number of calls made
    raw,       \* the tokens of a query response handed to the field scan
    sought,    \* the marker the scan looks for
    parsed     \* what each scan of the response gave, in order

vars == <<variant, cls, self, kernel, call, calls, raw, sought, parsed>>

(***************************************************************************)
(* Python helpers                                                          *)
(***************************************************************************)

\* str.lower() on the tokens the model uses
Lower(s) ==
    CASE s = "UP" -> "up"
      [] s = "DOWN" -> "down"
      [] s = "UNKNOWN" -> "unknown"
      [] s = "MULTICAST" -> "multicast"
      [] OTHER -> s

\* bool(setting): the truth value `if not setting` tests
Truthy(setting) == setting \in {"'on'", "'off'", "True"}

\* setting == True
EqualsTrue(setting) == setting = "True"

(***************************************************************************)
(* The external commands                                                   *)
(***************************************************************************)

\* The exception a failed mutation command ends in: check_output lets
\* CalledProcessError through, check_call's is caught and re-raised.
WriteError == IF variant = NI THEN "CalledProcessError" ELSE "SystemCallError"

\* An execution in progress: the kernel, the identity handle, the commands
\* issued so far, the messages logged so far, the pending exception and the
\* command it carries (CalledProcessError.cmd, which SystemCallError's message
\* quotes).
Begin == [kernel |-> kernel, iface |-> self.iface, cmds |-> <<>>, log |-> <<>>,
          exc |-> NoExc, failed |-> <<>>]

RaiseIn(e, exc) == IF e.exc # NoExc THEN e ELSE [e EXCEPT !.exc = exc]

\* Run as subprocess.call would do it: the exit status is not checked.
RunUnchecked(e, dev, argv, rc, err, k2) ==
    IF e.exc # NoExc THEN e
    ELSE LET code == IF dev = e.kernel.name THEN rc ELSE 1
         IN [e EXCEPT !.cmds = Append(@, [argv |-> argv, rc |-> code]),
                      !.kernel = IF code = 0 THEN k2 ELSE @]

\* subprocess.check_output / check_call of argv against device dev: the
\* command exits rc (non-zero when no device has that name); on 0 the kernel
\* is k2, otherwise the call raises err.
Run(e, dev, argv, rc, err, k2) ==
    IF e.exc # NoExc THEN e
    ELSE LET code == IF dev = e.kernel.name THEN rc ELSE 1
         IN [e EXCEPT !.cmds = Append(@, [argv |-> argv, rc |-> code]),
                      !.kernel = IF code = 0 THEN k2 ELSE @,
                      !.exc = IF code = 0 THEN NoExc ELSE err,
                      !.failed = IF code = 0 THEN @ ELSE argv]

\* The tokens of `ip link show <dev>` after the flag list, and the flag list.
LinkShow(k) ==
    [flags |-> k.flags,
     tokens |-> <<"mtu", "1500", "state", k.state, "link/ether", k.hwaddr,
                  "permaddr", k.permaddr>>
                \o (IF k.alias = None THEN <<>> ELSE <<"alias", k.alias>>)]

\* ip link show: a query, it fails only when the device does not exist
Show(e) ==
    Run(e, e.iface, <<"ip", "link", "show", e.iface>>, 0, "CalledProcessError",
        e.kernel)

\* iw dev <dev> info
IwInfo(e) ==
    Run(e, e.iface, <<"iw", "dev", e.iface, "info">>, 0, "CalledProcessError",
        e.kernel)

\* The scan every accessor repeats: the token after the marker, None when no
\* token equals the marker. The loop has no break: the last match wins.
ParseField(slst, marker) ==
    LET hits == {i \in 1..Len(slst) : slst[i] = marker}
        last == CHOOSE i \in hits : \A j \in hits : j <= i
    IN IF hits = {} THEN None
       ELSE IF last + 1 <= Len(slst) THEN slst[last + 1] ELSE "IndexError"

\* `"type" in part`: the tokens of the model that contain the marker
Contains(part, m) == part = m \/ (m = "type" /\ part = "0x1\n\ttype")

\* mstr.split("\n\t") on the tokens of the model
SplitLine(mstr) ==
    CASE mstr = "managed\n\twiphy" -> <<"managed", "wiphy">>
      [] mstr = "0x1\n\ttype" -> <<"0x1", "type">>
      [] OTHER -> <<mstr>>

\* The scan of iw dev <dev> info for the type: it stops at the first token
\* containing the marker and unpacks the next token, split at the line
\* break, into exactly two names.
ParseInfoField(tokens, m) ==
    LET hits == {i \in 1..Len(tokens) : Contains(tokens[i], m)}
        first == CHOOSE i \in hits : \A j \in hits : i <= j
    IN IF hits = {} THEN None
       ELSE IF first + 1 > Len(tokens) THEN "IndexError"
       ELSE IF Len(SplitLine(tokens[first + 1])) # 2 THEN "ValueError"
       ELSE SplitLine(tokens[first + 1])[1]

(***************************************************************************)
(* The accessors: each returns the execution and the value                 *)
(***************************************************************************)

\* __name__ with the handle moved whether or not the rename command succeeded.
NameEager(e, set_name, rc) ==
    IF set_name = None THEN [e |-> e, val |-> e.iface]
    ELSE LET e1 == Run(e, e.iface,
                       <<"ip", "link", "set", e.iface, "name", set_name>>, rc,
                       WriteError, [e.kernel EXCEPT !.name = set_name])
             e2 == [e1 EXCEPT !.iface = set_name]
         IN [e |-> e2, val |-> e2.iface]

__name__(e, set_name, rc) ==
    IF set_name = None THEN [e |-> e, val |-> e.iface]
    ELSE LET e1 == Run(e, e.iface,
                       <<"ip", "link", "set", e.iface, "name", set_name>>, rc,
                       WriteError, [e.kernel EXCEPT !.name = set_name])
             e2 == IF e1.exc = NoExc THEN [e1 EXCEPT !.iface = set_name] ELSE e1
         IN [e |-> e2, val |-> e2.iface]

__alias__(e, set_alias, rc, obs) ==
    LET e1 == IF set_alias = None THEN e
              ELSE Run(e, e.iface,
                       <<"ip", "link", "set", e.iface, "alias", set_alias>>, rc,
                       WriteError, [e.kernel EXCEPT !.alias = obs])
        e2 == Show(e1)
    IN [e |-> e2, val |-> ParseField(LinkShow(e2.kernel).tokens, "alias")]

__hwaddr__(e, set_hwaddr, rc, obs) ==
    LET e1 == IF set_hwaddr = None THEN e
              ELSE Run(e, e.iface,
                       <<"ip", "link", "set", e.iface, "address", set_hwaddr>>,
                       rc, WriteError, [e.kernel EXCEPT !.hwaddr = obs])
        e2 == Show(e1)
    IN [e |-> e2, val |-> ParseField(LinkShow(e2.kernel).tokens, "link/ether")]

__permaddr__(e) ==
    LET e2 == Show(e)
    IN [e |-> e2, val |-> ParseField(LinkShow(e2.kernel).tokens, "permaddr")]

__state__(e, set_state, rc, obs) ==
    LET e1 == IF set_state = None THEN e
              ELSE Run(e, e.iface, <<"ip", "link", "set", e.iface, set_state>>,
                       rc, WriteError, [e.kernel EXCEPT !.state = obs])
        e2 == Show(e1)
    IN [e |-> e2, val |-> Lower(ParseField(LinkShow(e2.kernel).tokens, "state"))]

__flags__(e) ==
    LET e2 == Show(e)
    IN [e |-> e2, val |-> LinkShow(e2.kernel).flags]

\* The body the four flag accessors share: kw is the keyword of the toggle
\* command, bracket whether the command string ends in "]", token the flag
\* looked for in the flag list, present whether the kernel lists it after a
\* command that exits 0.
FlagAccessor(e, kw, bracket, token, set_flag, rc, present) ==
    LET sopt == IF EqualsTrue(set_flag) THEN "on" ELSE "off"
        arg == IF ~bracket THEN sopt ELSE IF sopt = "on" THEN "on]" ELSE "off]"
        e1 == IF set_flag = None THEN e
              ELSE Run(e, e.iface, <<"ip", "link", "set", e.iface, kw, arg>>, rc,
                       WriteError,
                       [e.kernel EXCEPT !.flags = IF present THEN @ \cup {token}
                                                  ELSE @ \ {token}])
        r == __flags__(e1)
    IN [e |-> r.e, val |-> token \in r.val]

__noarp__(e, set_flag, rc, present) ==
    FlagAccessor(e, "arp", TRUE, "NOARP", set_flag, rc, present)

__multicast__(e, set_flag, rc, present) ==
    FlagAccessor(e, "multicast", TRUE, "MULTICAST", set_flag, rc, present)

__allmulti__(e, set_flag, rc, present) ==
    FlagAccessor(e, "allmulticast", TRUE, "ALLMULTICAST", set_flag, rc, present)

__promisc__(e, set_flag, rc, present) ==
    FlagAccessor(e, "promisc", FALSE, "PROMISC", set_flag, rc, present)

\* iw dev <dev> set type <mode>, then the type iw dev <dev> info prints
__mode__(e, set_mode, rc, obs) ==
    LET e1 == IF set_mode = None THEN e
              ELSE Run(e, e.iface,
                       <<"iw", "dev", e.iface, "set", "type", set_mode>>, rc,
                       WriteError, [e.kernel EXCEPT !.mode = obs])
        e2 == IwInfo(e1)
    IN [e |-> e2, val |-> e2.kernel.mode]

\* iw dev <dev> set channel <str(channel)>, then int() of the channel printed
__channel__(e, set_channel, rc, obs) ==
    LET e1 == IF set_channel = None THEN e
              ELSE Run(e, e.iface,
                       <<"iw", "dev", e.iface, "set", "channel",
                         set_channel>>, rc,
                       WriteError, [e.kernel EXCEPT !.channel = obs])
        e2 == IwInfo(e1)
    IN [e |-> e2, val |-> e2.kernel.channel]

\* __error_handler__ without the mode switch: it raises whatever the mode.
ErrorHandlerAlwaysRaises(e, msg) ==
    IF e.exc # NoExc THEN e
    ELSE [e EXCEPT !.log = Append(@, <<"error", msg>>), !.exc = "Exception"]

\* __error_handler__: strict logs an error and raises Exception, permissive
\* logs a warning and returns None. The object is given a logger: log holds
\* what the logger receives.
__error_handler__(e, msg) ==
    IF e.exc # NoExc THEN e
    ELSE IF self.strict_error_handling
    THEN [e EXCEPT !.log = Append(@, <<"error", msg>>), !.exc = "Exception"]
    ELSE [e EXCEPT !.log = Append(@, <<"warning", msg>>)]

(***************************************************************************)
(* Construction                                                            *)
(***************************************************************************)

\* The devices an object is bound to.
Kernels ==
    [name : {"eth0"}, alias : {None}, hwaddr : {"02:00:00:00:00:01"},
     permaddr : {"02:00:00:00:00:01"}, state : {"UP", "DOWN"},
     flags : {{"BROADCAST", "MULTICAST"}},
     mode : {"managed"}, channel : {"1"}, managed : {TRUE}]

\* Interface.__init__, then WiredInterface / WirelessInterface.__init__
Construct(v, c, k, strict, manager) ==
    LET e == [kernel |-> k, iface |-> k.name, cmds |-> <<>>, log |-> <<>>,
              exc |-> NoExc, failed |-> <<>>]
    IN [iface |-> k.name,
        name |-> __name__(e, None, 0).val,
        alias |-> __alias__(e, None, 0, None).val,
        hwaddr |-> __hwaddr__(e, None, 0, None).val,
        permaddr |-> __permaddr__(e).val,
        state |-> __state__(e, None, 0, None).val,
        device_flags |-> __flags__(e).val,
        noarp |-> __noarp__(e, None, 0, FALSE).val,
        multicast |-> __multicast__(e, None, 0, FALSE).val,
        allmulti |-> __allmulti__(e, None, 0, FALSE).val,
        promisc |-> __promisc__(e, None, 0, FALSE).val,
        strict_error_handling |-> strict,
        manager_backend |-> IF c # "Interface" /\ manager = "networkmanager"
                            THEN "NetworkManager" ELSE None,
        mode |-> IF c = "WirelessInterface"
                 THEN __mode__(e, None, 0, None).val ELSE None,
        channel |-> IF c = "WirelessInterface"
                    THEN __channel__(e, None, 0, None).val ELSE None]

NoCall == [op |-> "__init__", args |-> <<>>, result |-> "return", value |-> None,
           cmds |-> <<>>, log |-> <<>>, failed |-> <<>>, old |-> None, new |-> None]

Init ==
    /\ variant \in Variants
    /\ cls \in Classes
    /\ kernel \in Kernels
    /\ \E strict \in BOOLEAN, manager \in {None, "networkmanager"} :
          /\ variant = LNI => ~strict
          /\ cls = "Interface" => manager = None
          /\ self = Construct(variant, cls, kernel, strict, manager)
    /\ call = NoCall
    /\ calls = 0
    /\ raw = <<>>
    /\ sought = None
    /\ parsed = <<>>

(***************************************************************************)
(* Calls                                                                   *)
(***************************************************************************)

\* The classes that define each public method.
HasMethod(op) ==
    CASE op \in {"up", "down"} -> variant = NI
      [] op = "set_device_flag" -> TRUE
      [] op = "set_alias" -> variant = LNI
      [] op \in {"set_name", "set_hwaddr", "set_state", "start_management",
                 "stop_management"} ->
            variant = LNI \/ cls = "WirelessInterface"
      [] op \in {"set_mode", "set_channel"} -> cls = "WirelessInterface"
      [] OTHER -> FALSE

\* The call ends: e is the finished execution, s the object's attributes as
\* the method left them, ret the value returned when no exception is pending,
\* old and new the attribute as a read gave it before and after the write.
Finish(op, args, e, s, ret, old, new) ==
    /\ kernel' = e.kernel
    /\ self' = [s EXCEPT !.iface = e.iface]
    /\ call' = [op |-> op, args |-> args,
                result |-> IF e.exc # NoExc THEN "raise" ELSE "return",
                value |-> IF e.exc # NoExc THEN e.exc ELSE ret,
                cmds |-> e.cmds, log |-> e.log, failed |-> e.failed,
                old |-> old, new |-> new]
    /\ calls' = calls + 1
    /\ UNCHANGED <<variant, cls, raw, sought, parsed>>

\* A method the object's class does not define: the attribute lookup fails.
NoSuchMethod(op, args) ==
    Finish(op, args, RaiseIn(Begin, "AttributeError"), self, None, None, None)

\* What the kernel answers to a mutation command: a non-zero exit, or exit 0
\* with the attribute then at obs, any value of its domain.
Replies(domain) == {[rc |-> 1, obs |-> None]} \cup [rc : {0}, obs : domain]

\* The value a read of the attribute gives on the kernel as it is.
Observed(attr) ==
    CASE attr = "alias" -> __alias__(Begin, None, 0, None).val
      [] attr = "hwaddr" -> __hwaddr__(Begin, None, 0, None).val
      [] attr = "state" -> __state__(Begin, None, 0, None).val
      [] attr = "mode" -> __mode__(Begin, None, 0, None).val
      [] attr = "channel" -> __channel__(Begin, None, 0, None).val

set_name(name) ==
    /\ calls < MaxCalls
    /\ HasMethod("set_name")
    /\ \E rc \in ExitCodes :
        LET cur == __name__(Begin, None, 0)
            r == __name__(cur.e, name, rc)
            s == IF r.e.exc = NoExc THEN [self EXCEPT !.name = r.val] ELSE self
            e == IF variant = LNI /\ r.val = cur.val
                 THEN RaiseIn(r.e, "AttributeSetSilentFailError") ELSE r.e
        IN Finish("set_name", <<name>>, e, s, r.val, cur.val, r.val)

set_alias(alias) ==
    /\ calls < MaxCalls
    /\ HasMethod("set_alias")
    /\ \E k \in Replies(AliasValues) :
        LET r == __alias__(Begin, alias, k.rc, k.obs)
            s == IF r.e.exc = NoExc THEN [self EXCEPT !.alias = r.val] ELSE self
        IN Finish("set_alias", <<alias>>, r.e, s, r.val, Observed("alias"), r.val)

set_hwaddr(hwaddr) ==
    /\ calls < MaxCalls
    /\ HasMethod("set_hwaddr")
    /\ \E k \in Replies(HwAddrs) :
        LET cur == IF variant = LNI THEN __hwaddr__(Begin, None, 0, None)
                   ELSE [e |-> Begin, val |-> Observed("hwaddr")]
            r == __hwaddr__(cur.e, hwaddr, k.rc, k.obs)
            s == IF r.e.exc = NoExc THEN [self EXCEPT !.hwaddr = r.val] ELSE self
            e == IF variant = LNI /\ r.val = cur.val
                 THEN RaiseIn(r.e, "AttributeSetSilentFailError") ELSE r.e
        IN Finish("set_hwaddr", <<hwaddr>>, e, s, r.val, cur.val, r.val)

set_state(state) ==
    /\ calls < MaxCalls
    /\ HasMethod("set_state")
    /\ \E k \in Replies(OperStates) :
        LET cur == IF variant = LNI THEN __state__(Begin, None, 0, None)
                   ELSE [e |-> Begin, val |-> Observed("state")]
            r == __state__(cur.e, state, k.rc, k.obs)
            s == IF r.e.exc = NoExc THEN [self EXCEPT !.state = r.val] ELSE self
            e == IF variant = LNI /\ r.val = cur.val
                 THEN RaiseIn(r.e, "AttributeSetSilentFailError") ELSE r.e
        IN Finish("set_state", <<state>>, e, s, r.val, cur.val, r.val)

set_mode(mode) ==
    /\ calls < MaxCalls
    /\ HasMethod("set_mode")
    /\ \E k \in Replies(Modes) :
        LET cur == IF variant = LNI THEN __mode__(Begin, None, 0, None)
                   ELSE [e |-> Begin, val |-> Observed("mode")]
            r == __mode__(cur.e, mode, k.rc, k.obs)
            s == IF r.e.exc = NoExc THEN [self EXCEPT !.mode = r.val] ELSE self
            e == IF variant = LNI /\ r.val = cur.val
                 THEN RaiseIn(r.e, "AttributeSetSilentFailError") ELSE r.e
        IN Finish("set_mode", <<mode>>, e, s, r.val, cur.val, r.val)

set_channel(channel) ==
    /\ calls < MaxCalls
    /\ HasMethod("set_channel")
    /\ \E k \in Replies(Channels) :
        LET cur == IF variant = LNI THEN __channel__(Begin, None, 0, None)
                   ELSE [e |-> Begin, val |-> Observed("channel")]
            r == __channel__(cur.e, channel, k.rc, k.obs)
            s == IF r.e.exc = NoExc THEN [self EXCEPT !.channel = r.val] ELSE self
            e == IF variant = LNI /\ r.val = cur.val
                 THEN RaiseIn(r.e, "AttributeSetSilentFailError") ELSE r.e
        IN Finish("set_channel", <<channel>>, e, s, r.val, cur.val, r.val)

\* UpDown without its post-condition: the state read back is not compared
\* with the requested one.
UpDownUnverified(op, want) ==
    /\ calls < MaxCalls
    /\ HasMethod(op)
    /\ LET cur == __state__(Begin, None, 0, None)
       IN IF cur.val # want
          THEN \E k \in Replies(OperStates) :
                 LET r == __state__(cur.e, want, k.rc, k.obs)
                 IN Finish(op, <<>>, r.e, self, "True", cur.val, r.val)
          ELSE Finish(op, <<>>,
                      RaiseIn(__error_handler__(cur.e, "already"),
                              "UnboundLocalError"),
                      self, None, cur.val, None)

\* up() and down(): want is "up" or "down". When the state read first is
\* already the wanted one, the error handler is called and, if it returns,
\* the local variable state is read without ever having been bound.
UpDown(op, want) ==
    /\ calls < MaxCalls
    /\ HasMethod(op)
    /\ LET cur == __state__(Begin, None, 0, None)
       IN IF cur.val # want
          THEN \E k \in Replies(OperStates) :
                 LET r == __state__(cur.e, want, k.rc, k.obs)
                 IN IF r.e.exc = NoExc /\ r.val # want
                    THEN Finish(op, <<>>, __error_handler__(r.e, "failed"), self,
                                "False", cur.val, r.val)
                    ELSE Finish(op, <<>>, r.e, self, "True", cur.val, r.val)
          ELSE Finish(op, <<>>,
                      RaiseIn(__error_handler__(cur.e, "already"),
                              "UnboundLocalError"),
                      self, None, cur.val, None)

up == UpDown("up", "up")

down == UpDown("down", "down")

\* The accessor set_device_flag dispatches to; allmulti is looked up as
\* __allmulti___, which no class defines.
FlagDispatch(e, fl, setting, rc, present) ==
    CASE fl = "noarp" -> __noarp__(e, setting, rc, present)
      [] fl = "multicast" -> __multicast__(e, setting, rc, present)
      [] fl = "allmulti" -> [e |-> RaiseIn(e, "AttributeError"), val |-> FALSE]
      [] fl = "promisc" -> __promisc__(e, setting, rc, present)

\* The first statements of set_device_flag: `if not setting` calls
\* self.__error_handler__, which linuxnetworkinterfaces does not define.
CheckSetting(e, setting) ==
    IF Truthy(setting) THEN e
    ELSE IF variant = LNI THEN RaiseIn(e, "AttributeError")
    ELSE __error_handler__(e, "setting")

set_device_flag(flag, setting) ==
    /\ calls < MaxCalls
    /\ HasMethod("set_device_flag")
    /\ LET args == <<flag, setting>>
           fl == Lower(flag)
           e1 == CheckSetting(Begin, setting)
           old == LinkShow(kernel).flags
       IN IF fl \notin {"noarp", "multicast", "allmulti", "promisc"}
          THEN Finish("set_device_flag", args,
                      IF variant = LNI THEN RaiseIn(e1, "Exception")
                      ELSE __error_handler__(e1, "flag"),
                      self, "False", old, old)
          ELSE \E k \in IF e1.exc = NoExc /\ fl # "allmulti" /\ setting # None
                        THEN Replies(BOOLEAN) ELSE {[rc |-> 0, obs |-> FALSE]} :
                 LET r == FlagDispatch(e1, fl, setting, k.rc, k.obs)
                     new == LinkShow(r.e.kernel).flags
                 IN IF r.e.exc = NoExc /\ ~r.val
                    THEN Finish("set_device_flag", args,
                                IF variant = LNI
                                THEN RaiseIn(r.e, "AttributeSetSilentFailError")
                                ELSE __error_handler__(__flags__(r.e).e, "unchanged"),
                                self, "False", old, new)
                    ELSE Finish("set_device_flag", args, r.e, self, "True", old, new)

\* NetworkManager.include() / exclude()
include(e) == IF e.exc # NoExc THEN e ELSE [e EXCEPT !.kernel.managed = TRUE]

exclude(e) == IF e.exc # NoExc THEN e ELSE [e EXCEPT !.kernel.managed = FALSE]

start_management ==
    /\ calls < MaxCalls
    /\ HasMethod("start_management")
    /\ Finish("start_management", <<>>,
              IF self.manager_backend = None
              THEN RaiseIn(Begin, "AttributeError") ELSE include(Begin),
              self, None, None, None)

stop_management ==
    /\ calls < MaxCalls
    /\ HasMethod("stop_management")
    /\ Finish("stop_management", <<>>,
              IF self.manager_backend = None
              THEN RaiseIn(Begin, "AttributeError") ELSE exclude(Begin),
              self, None, None, None)

\* A call of a method the object's class does not define.
MissingMethod(op) ==
    /\ calls < MaxCalls
    /\ ~HasMethod(op)
    /\ NoSuchMethod(op, <<>>)

Methods ==
    {"set_name", "set_alias", "set_hwaddr", "set_state", "set_mode", "set_channel",
     "up", "down", "set_device_flag", "start_management", "stop_management"}

Next ==
    \/ \E name \in Names : set_name(name)
    \/ \E alias \in AliasValues : set_alias(alias)
    \/ \E hwaddr \in HwAddrs : set_hwaddr(hwaddr)
    \/ \E state \in StateArgs : set_state(state)
    \/ \E mode \in Modes : set_mode(mode)
    \/ \E channel \in Channels : set_channel(channel)
    \/ up
    \/ down
    \/ \E flag \in FlagArgs, setting \in Settings : set_device_flag(flag, setting)
    \/ start_management
    \/ stop_management
    \/ \E op \in Methods : MissingMethod(op)

Spec == Init /\ [][Next]_vars

(***************************************************************************)
(* Reading the last call                                                   *)
(***************************************************************************)

Setters == {"set_name", "set_alias", "set_hwaddr", "set_state", "set_mode",
            "set_channel"}

RecognizedFlags == {"noarp", "multicast", "allmulti", "promisc"}

\* A mutation command: ip link set ..., iw dev <dev> set ...
IsWrite(c) ==
    \/ c.argv[1] = "ip" /\ c.argv[3] = "set"
    \/ c.argv[1] = "iw" /\ c.argv[4] = "set"

\* The device a command addresses
Target(c) == IF c.argv[1] = "ip" THEN c.argv[4] ELSE c.argv[3]

WriteIssued == \E i \in 1..Len(call.cmds) : IsWrite(call.cmds[i])

WriteExitedZero ==
    \E i \in 1..Len(call.cmds) : IsWrite(call.cmds[i]) /\ call.cmds[i].rc = 0

WriteExitedNonZero ==
    \E i \in 1..Len(call.cmds) : IsWrite(call.cmds[i]) /\ call.cmds[i].rc # 0

\* The call returned and did not return the failure sentinel.
Success == call.result = "return" /\ call.value # "False"

\* The call reported that the attribute did not change: the dedicated
\* exception, the strict error handler's exception, or the permissive False.
NotChangedFailure ==
    \/ call.result = "raise"
       /\ call.value \in {"AttributeSetSilentFailError", "Exception"}
    \/ call.result = "return" /\ call.value = "False"

Permissive == variant = NI /\ ~self.strict_error_handling

(***************************************************************************)
(* C1                                                                      *)
(***************************************************************************)

\* C1: every attribute setter whose write command exits 0 while the value
\* read after the write equals the value read before it fails with the
\* attribute-not-changed error (or its permissive report); it never returns
\* as a success.
C1_UnchangedSetterFails ==
    (call.op \in Setters /\ WriteExitedZero /\ call.new = call.old)
        => NotChangedFailure /\ ~Success

(***************************************************************************)
(* C2                                                                      *)
(***************************************************************************)

\* C2: when the mutation command of an attribute write exits non-zero, the
\* call raises the external-command error carrying that command, in strict
\* and in permissive mode alike; no command follows the failed one (no
\* read-back) and no value is returned.
C2_FailedWriteRaises ==
    \A i \in 1..Len(call.cmds) :
        (IsWrite(call.cmds[i]) /\ call.cmds[i].rc # 0)
            => /\ i = Len(call.cmds)
               /\ call.result = "raise"
               /\ call.value \in {"CalledProcessError", "SystemCallError"}
               /\ call.failed = call.cmds[i].argv

\* A permissive object's flag toggle exited non-zero.
C2_Witness ==
    /\ Permissive
    /\ call.op = "set_device_flag"
    /\ WriteExitedNonZero
    /\ call.result = "raise"

(***************************************************************************)
(* C3                                                                      *)
(***************************************************************************)

\* The snapshot field(s) a mutator concerns equal what the system reports.
SnapshotFresh(op) ==
    CASE op = "set_name" -> self.name = kernel.name
      [] op = "set_alias" -> self.alias = Observed("alias")
      [] op = "set_hwaddr" -> self.hwaddr = Observed("hwaddr")
      [] op \in {"set_state", "up", "down"} -> self.state = Observed("state")
      [] op = "set_mode" -> self.mode = Observed("mode")
      [] op = "set_channel" -> self.channel = Observed("channel")
      [] op = "set_device_flag" ->
            /\ self.device_flags = LinkShow(kernel).flags
            /\ self.noarp = ("NOARP" \in kernel.flags)
            /\ self.multicast = ("MULTICAST" \in kernel.flags)
            /\ self.allmulti = ("ALLMULTICAST" \in kernel.flags)
            /\ self.promisc = ("PROMISC" \in kernel.flags)
      [] OTHER -> TRUE

\* C3: whenever a mutator returns successfully, the snapshot field it
\* concerns equals the value the system reports at that moment.
C3_SnapshotFollowsSystem ==
    (call.op \in Setters \cup {"set_device_flag", "up", "down"} /\ Success)
        => SnapshotFresh(call.op)

(***************************************************************************)
(* C4                                                                      *)
(***************************************************************************)

RenameExitedZero(c) ==
    /\ c.op = "set_name"
    /\ \E i \in 1..Len(c.cmds) : IsWrite(c.cmds[i]) /\ c.cmds[i].rc = 0

\* C4: the identity handle moves only by a set_name whose rename command
\* exits 0, and then to the new name; a set_name whose rename fails leaves it;
\* every command a call issues addresses the handle as the call found it, so
\* after a successful set_name(new) every later command targets new.
C4_HandleFollowsRename ==
    [][/\ self'.iface = IF RenameExitedZero(call') THEN call'.args[1]
                        ELSE self.iface
       /\ \A i \in 1..Len(call'.cmds) : Target(call'.cmds[i]) = self.iface
       /\ self'.iface = kernel'.name]_vars

\* After a rename to eth1 a later call of another method issued commands, all
\* of them against eth1.
C4_Witness ==
    /\ call.op \notin {"set_name", "__init__"}
    /\ self.iface = "eth1"
    /\ WriteIssued
    /\ \A i \in 1..Len(call.cmds) : Target(call.cmds[i]) = "eth1"

(***************************************************************************)
(* C5                                                                      *)
(***************************************************************************)

\* C5: in permissive mode up() on an interface observed up (down() on one
\* observed down) logs a warning and returns, without issuing the toggle
\* command and without ending in an error.
C5_AlreadyThereIsNoOp ==
    (Permissive /\ call.op \in {"up", "down"} /\ call.old = call.op)
        => /\ call.result = "return"
           /\ ~WriteIssued
           /\ \E i \in 1..Len(call.log) : call.log[i][1] = "warning"

(***************************************************************************)
(* C6                                                                      *)
(***************************************************************************)

\* The token each flag accessor looks for in the flag list
FlagToken(fl) ==
    CASE fl = "noarp" -> "NOARP"
      [] fl = "multicast" -> "MULTICAST"
      [] fl = "allmulti" -> "ALLMULTICAST"
      [] fl = "promisc" -> "PROMISC"

\* The keyword of each flag's toggle command
FlagKeyword(fl) ==
    CASE fl = "noarp" -> "arp"
      [] fl = "multicast" -> "multicast"
      [] fl = "allmulti" -> "allmulticast"
      [] fl = "promisc" -> "promisc"

FlagCall == call.op = "set_device_flag" /\ Lower(call.args[1]) \in RecognizedFlags

\* C6: for each recognized flag f, unless the toggle command itself fails,
\* set_device_flag(f, True) reports success with f listed afterwards (has(f)
\* is true) when the toggle took effect, and reports the attribute-not-changed
\* failure when the flag list is as it was, without f.
C6_FlagOnThenHas ==
    (FlagCall /\ call.args[2] = "True" /\ ~WriteExitedNonZero)
        => IF FlagToken(Lower(call.args[1])) \in call.new
           THEN Success /\ FlagToken(Lower(call.args[1])) \in LinkShow(kernel).flags
           ELSE call.new = call.old => NotChangedFailure

(***************************************************************************)
(* C7                                                                      *)
(***************************************************************************)

\* C7: for every recognized flag the settings "on" and True issue the flag's
\* toggle command with the argument on, and "off" issues it with off; the
\* argument is exactly the token on or off.
C7_SettingNormalized ==
    (FlagCall /\ call.args[2] \in {"'on'", "True", "'off'"})
        => \E i \in 1..Len(call.cmds) :
              /\ IsWrite(call.cmds[i])
              /\ call.cmds[i].argv[5] = FlagKeyword(Lower(call.args[1]))
              /\ call.cmds[i].argv[6] = IF call.args[2] = "'off'" THEN "off" ELSE "on"

(***************************************************************************)
(* C8                                                                      *)
(***************************************************************************)

\* C8: set_device_flag with a falsy or empty setting is rejected in both
\* modules and both error modes: the call does not succeed, no toggle command
\* is issued, the system's flags are as they were.
C8_FalsySettingRejected ==
    (call.op = "set_device_flag" /\ call.args[2] \in {"False", "None", "''", "0"})
        => ~Success /\ ~WriteIssued /\ call.new = call.old

(***************************************************************************)
(* C9                                                                      *)
(***************************************************************************)

\* C9: start_management() and stop_management() on a wired or wireless
\* interface with no manager backend fail with the manager-not-configured
\* error, in strict and in permissive mode alike.
C9_NoBackendIsReported ==
    (/\ call.op \in {"start_management", "stop_management"}
     /\ cls \in {"WiredInterface", "WirelessInterface"}
     /\ self.manager_backend = None)
        => call.result = "raise" /\ call.value = "ManagerNotConfiguredError"

(***************************************************************************)
(* C10                                                                     *)
(***************************************************************************)

UnrecognizedFlag ==
    call.op = "set_device_flag" /\ Lower(call.args[1]) \notin RecognizedFlags

\* set_device_flag re-read the flag list (the last command is a query that
\* exited 0) and the flag is not listed.
FlagNotChanged ==
    /\ FlagCall
    /\ Len(call.cmds) > 0
    /\ ~IsWrite(call.cmds[Len(call.cmds)])
    /\ call.cmds[Len(call.cmds)].rc = 0
    /\ FlagToken(Lower(call.args[1])) \notin call.new

\* up() / down() toggled, the command exited 0, and the state read back is
\* not the requested one.
StateNotChanged ==
    /\ call.op \in {"up", "down"}
    /\ call.old # call.op
    /\ WriteExitedZero
    /\ Observed("state") # call.op

\* C11: in networkinterfaces, where the error mode is chosen at construction,
\* an unrecognized flag name, a flag found not set and a state found not
\* changed are reported by the mode: a strict object raises Exception, a
\* permissive one logs a warning and returns False without raising.
C11_ModeDecidesReport ==
    (variant = NI /\ (UnrecognizedFlag \/ FlagNotChanged \/ StateNotChanged))
        => IF self.strict_error_handling
           THEN call.result = "raise" /\ call.value = "Exception"
           ELSE /\ call.result = "return"
                /\ call.value = "False"
                /\ \E i \in 1..Len(call.log) : call.log[i][1] = "warning"

\* A permissive object asked for a flag with True, the command exited 0, the
\* flag is not listed: False is returned.
C11_Witness ==
    /\ Permissive
    /\ FlagNotChanged
    /\ call.args[2] = "True"
    /\ WriteExitedZero
    /\ call.result = "return"
    /\ call.value = "False"

(***************************************************************************)
(* C12                                                                     *)
(***************************************************************************)

\* The state set_device_flag was asked for: on for "on" and True.
RequestedOn == call.args[2] \in {"'on'", "True"}

\* C12: for every recognized flag and requested state, once the toggle
\* command has exited 0, set_device_flag reports success exactly when the
\* flag's membership in the re-read flag list matches the requested state (a
\* toggle to off that removes the flag is a success), and the not-changed
\* failure only when it does not match.
C12_SuccessIffMembershipMatches ==
    (FlagCall /\ call.args[2] \in {"'on'", "True", "'off'"} /\ WriteExitedZero)
        => /\ Success
                <=> ((FlagToken(Lower(call.args[1])) \in call.new) = RequestedOn)
           /\ NotChangedFailure
                => ((FlagToken(Lower(call.args[1])) \in call.new) # RequestedOn)

(***************************************************************************)
(* The field scan on its own: any response, parsed more than once          *)
(***************************************************************************)

\* The words a response is made of, and the responses.
ParseTokens == {"alias", "lan", "type", "0x1\n\ttype", "managed\n\twiphy"}
ParseMarkers == {"alias", "type"}
Responses == UNION {[1..n -> ParseTokens] : n \in 0..MaxTokens}

ParseInit ==
    /\ variant = LNI
    /\ cls = "WirelessInterface"
    /\ kernel \in {k \in Kernels : k.state = "UP"}
    /\ self = Construct(variant, cls, kernel, FALSE, None)
    /\ call = NoCall
    /\ calls = 0
    /\ raw \in Responses
    /\ sought \in ParseMarkers
    /\ parsed = <<>>

\* The loop of __alias__ (the same in __hwaddr__, __permaddr__, __state__) run
\* on the response.
parse_link_show ==
    /\ sought = "alias"
    /\ Len(parsed) < MaxParses
    /\ parsed' = Append(parsed, ParseField(raw, sought))
    /\ UNCHANGED <<variant, cls, self, kernel, call, calls, raw, sought>>

\* The loop of __mode__ run on the response.
parse_iw_info ==
    /\ sought = "type"
    /\ Len(parsed) < MaxParses
    /\ parsed' = Append(parsed, ParseInfoField(raw, sought))
    /\ UNCHANGED <<variant, cls, self, kernel, call, calls, raw, sought>>

ParseNext == parse_link_show \/ parse_iw_info

SpecParse == ParseInit /\ [][ParseNext]_vars

(***************************************************************************)
(* C13                                                                     *)
(***************************************************************************)

\* The positions of the tokens equal to the marker.
MarkerAt == {i \in 1..Len(raw) : raw[i] = sought}

FirstMarker == CHOOSE i \in MarkerAt : \A j \in MarkerAt : i <= j

\* C13: for every token sequence and marker, parsing gives the token
\* immediately following the first token equal to the marker, gives None (not
\* an empty string, not a crash) when no token equals the marker, and gives
\* the same result when the response is parsed again.
C13_TokenAfterFirstMarker ==
    \A i \in 1..Len(parsed) :
        /\ MarkerAt = {} => parsed[i] = None
        /\ (MarkerAt # {} /\ FirstMarker < Len(raw))
               => parsed[i] = raw[FirstMarker + 1]
        /\ \A j \in 1..Len(parsed) : parsed[j] = parsed[i]

====
